---- MODULE Spec2Model ----
(***************************************************************************)
(* Cause-list PDF scraper (src/utils.py), its CLI caller (src/cli.py) and  *)
(* the FastAPI relay with its WebSocket ConnectionManager                  *)
(* (src/server/main.py).                                                   *)
(*                                                                         *)
(* The portal page is the environment: whether the error modal is visible  *)
(* after a submit, how many result rows a page shows, which CNR label a    *)
(* record shows and whether a guarded Playwright call times out are        *)
(* nondeterministic choices.  Playwright calls outside every try block     *)
(* (the clicks of pass_captcha and begin_scrape) are taken to complete.    *)
(*                                                                         *)
(* Strings are sequences of one-character strings, so that pathlib's       *)
(* parsing of "/" can be computed.                                         *)
(***************************************************************************)
EXTENDS Integers, Sequences, FiniteSets, TLC

\* ------------------------------------------------------------ bounds
MaxRows == 2
MaxOptions == 2

\* --------------------------------------------------- program constants
MAX_ITERATIONS == 10

\* Python's None where a string may stand: no string of characters equals it.
None == <<"None">>

\* ------------------------------------------------------------ pathlib
\* The parts of a string split on "/", empty and "." parts dropped
\* (pathlib.PurePosixPath parsing); cur is the part being read.
RECURSIVE SplitParts(_, _, _)
SplitParts(s, i, cur) ==
    IF i > Len(s)
    THEN IF cur = <<>> \/ cur = <<".">> THEN <<>> ELSE <<cur>>
    ELSE IF s[i] = "/"
         THEN (IF cur = <<>> \/ cur = <<".">> THEN <<>> ELSE <<cur>>)
              \o SplitParts(s, i + 1, <<>>)
         ELSE SplitParts(s, i + 1, Append(cur, s[i]))

\* Path(s): a root flag and the list of parts.
Path(s) == [root |-> Len(s) > 0 /\ s[1] = "/", parts |-> SplitParts(s, 1, <<>>)]

\* p.joinpath(seg) for one segment: an absolute segment discards p.
JoinOne(p, seg) ==
    IF Path(seg).root
    THEN Path(seg)
    ELSE [root |-> p.root, parts |-> p.parts \o Path(seg).parts]

\* p.joinpath(*segs)
RECURSIVE joinpath(_, _)
joinpath(p, segs) ==
    IF segs = <<>> THEN p ELSE joinpath(JoinOne(p, Head(segs)), Tail(segs))

RECURSIVE JoinSlash(_)
JoinSlash(parts) ==
    IF parts = <<>> THEN <<>>
    ELSE IF Len(parts) = 1 THEN parts[1]
    ELSE parts[1] \o <<"/">> \o JoinSlash(Tail(parts))

\* str(p)
PathStr(p) ==
    IF p.parts = <<>>
    THEN (IF p.root THEN <<"/">> ELSE <<".">>)
    ELSE (IF p.root THEN <<"/">> ELSE <<>>) \o JoinSlash(p.parts)

\* The working directory of the process.
Cwd == [root |-> TRUE, parts |-> << <<"w">> >>]

\* p.absolute()
absolute(p) == IF p.root THEN p ELSE [root |-> TRUE, parts |-> Cwd.parts \o p.parts]

\* f"{name}.pdf"
PdfName(name) == name \o <<".", "p", "d", "f">>

\* self.PATH: WebScraper("static") in the server, --path in the CLI.
PATH == <<"s", "t", "a", "t", "i", "c">>

\* ------------------------------------------------------------- inputs
\* --state values: a plain name, and a name that begins with "/" (as a
\* regular expression "/?MH" still matches the option text "MH").
StateNames == { <<"M", "H">>, <<"/", "?", "M", "H">> }
DistName == <<"P", "u">>
CourtName == <<"D", "C">>
\* -n/--name values
CourtNameArgs == { <<"A">>, <<"B">> }
\* CNR labels a record page may show
Labels == { <<"X", "1">>, <<"Y", "2">> }

\* <option> elements: get_attribute returns None for a missing attribute.
Option(v, t, d) == [value |-> v, text |-> t, disabled |-> d]
AttrValues == {None, <<>>, <<"1">>}
DisabledValues == {None, <<>>, <<"d">>}
OptionTexts == { <<"A">>, <<"B">> }
AllOptions == { Option(v, t, d) : v \in AttrValues, t \in OptionTexts, d \in DisabledValues }

RECURSIVE SeqsUpTo(_, _)
SeqsUpTo(S, n) ==
    IF n = 0 THEN { <<>> }
    ELSE LET shorter == SeqsUpTo(S, n - 1)
         IN shorter \cup { Append(q, x) : q \in { r \in shorter : Len(r) = n - 1 }, x \in S }

\* The court-name <select> of the portal as begin_scrape_all may find it:
\* a placeholder first, then courts, some of them disabled.
Placeholder == Option(<<>>, <<"S">>, None)
CourtPages ==
    { <<Placeholder>>,
      <<Placeholder, Option(<<"1">>, <<"A">>, None), Option(<<"2">>, <<"B">>, None)>>,
      <<Placeholder, Option(<<"1">>, <<"B">>, <<>>), Option(<<"2">>, <<"A">>, None)>> }

VARIABLES
    caller,             \* "cli", or the endpoint: "court" (/api/court), "court_all" (/api/court/all)
    mode,               \* "single" (begin_scrape) or "all" (begin_scrape_all)
    chosen_state,
    chosen_court_name,  \* the court name scraped: the argument, or the loop variable name
    pc,                 \* position of the scraper coroutine
    modal,              \* the error modal's close button is visible
    idx,                \* pass_captcha: idx
    retries,            \* retry iterations completed by the current pass_captcha call
    options,            \* the <option> elements under the select get_all_options reads
    optI,               \* get_all_options: position in options
    loc,                \* get_all_options: loc, then court_names
    k,                  \* position of the court scraped in court_names (1 in begin_scrape)
    rows,               \* get_pdfs: len(records)
    rowI,               \* get_pdfs: position in records
    name,               \* get_pdfs: name
    shown,              \* the CNR label the page showed for the record clicked last
    tmo,                \* get_pdfs: the record at which TimeoutError was caught, 0 if none
    yielded,            \* the Dicts yielded so far, in order
    ylog,               \* per yielded Dict: [court, row, label]
    files,              \* files written by page.pdf: [court, row, file]
    dirs,               \* directories created by os.makedirs: [court, dir]
    calls,              \* finished get_pdfs calls, in order: [court, rows, tmo]
    trace,              \* form steps performed, in order: <<step, court position>>
    exc                 \* the exception that left the scraper, "none" if none

VARIABLES
    reqId,              \* the requesting client's cookie id (idx of the endpoint)
    formOk,             \* the posted form passes the endpoint's assertions
    hpc,                \* position of the endpoint handler
    bcast,              \* calls of manager.broadcast, in order: [idx, msg]
    sent,               \* per socket: the messages passed to send_json, in order
    wsPc,               \* per socket: position of its websocket_predict handler
    conn,               \* per socket: "new", "accepted" or "closed"
    active              \* manager.active_connections: id -> socket

scraperVars ==
    <<caller, mode, chosen_state, chosen_court_name, pc, modal, idx, retries, options,
      optI, loc, k, rows, rowI, name, shown, tmo, yielded, ylog, files, dirs, calls,
      trace, exc>>

serverVars == <<reqId, formOk, hpc, bcast, sent, wsPc, conn, active>>

vars == <<scraperVars, serverVars>>

\* ------------------------------------------------------------ scraper
\* typing.NamedTuple Dict(cnr, path)
Dict(c, p) == [cnr |-> c, path |-> p]

Step(s) == trace' = Append(trace, <<s, k>>)

\* begin_scrape / begin_scrape_all up to the first menu: launch, goto, wait,
\* and close the modal if it is open.
begin ==
    /\ pc = "start"
    /\ modal' = FALSE
    /\ pc' = "choose_state"
    /\ UNCHANGED <<caller, mode, chosen_state, chosen_court_name, idx,
                   retries, options, optI, loc, k, rows, rowI, name, shown,
                   tmo, yielded, ylog, files, dirs, calls, trace, exc, reqId,
                   formOk, hpc, bcast, sent, wsPc, conn, active>>

\* choose_state .. choose_name: the option is selected, or TimeoutError is
\* caught and printed; either way the caller's next statement follows.  The
\* menus are part of the page, which the model does not keep.
choose(at, next) ==
    /\ pc = at
    /\ Step(at)
    /\ pc' = next
    /\ UNCHANGED <<caller, mode, chosen_state, chosen_court_name, modal, idx,
                   retries, options, optI, loc, k, rows, rowI, name, shown,
                   tmo, yielded, ylog, files, dirs, calls, exc, reqId, formOk,
                   hpc, bcast, sent, wsPc, conn, active>>

choose_state == choose("choose_state", "choose_district")

choose_district_skips_complex == choose("choose_district", "choose_name")

choose_district == choose("choose_district", "choose_complex")

choose_complex ==
    choose("choose_complex", IF mode = "single" THEN "choose_name" ELSE "get_all_options")

choose_name == choose("choose_name", "fill_date")

\* get_all_options keeps an option when `value and disabled is None`.
KeepsDisabledEmpty(o) ==
    /\ (IF o.value = None THEN <<>> ELSE o.value) # <<>>
    /\ (o.disabled = None \/ o.disabled = <<>>)

Keeps(o) ==
    /\ (IF o.value = None THEN <<>> ELSE o.value) # <<>>
    /\ o.disabled = None

\* One pass of `for i in options`.
get_all_options_step ==
    /\ pc = "get_all_options"
    /\ optI <= Len(options)
    /\ loc' = IF Keeps(options[optI]) THEN Append(loc, options[optI].text) ELSE loc
    /\ optI' = optI + 1
    /\ UNCHANGED <<caller, mode, chosen_state, chosen_court_name, pc, modal,
                   idx, retries, options, k, rows, rowI, name, shown, tmo,
                   yielded, ylog, files, dirs, calls, trace, exc, reqId,
                   formOk, hpc, bcast, sent, wsPc, conn, active>>

\* `return loc`, bound to court_names.
get_all_options_return ==
    /\ pc = "get_all_options"
    /\ optI > Len(options)
    /\ pc' = "for_name"
    /\ UNCHANGED <<caller, mode, chosen_state, chosen_court_name, modal, idx,
                   retries, options, optI, loc, k, rows, rowI, name, shown,
                   tmo, yielded, ylog, files, dirs, calls, trace, exc, reqId,
                   formOk, hpc, bcast, sent, wsPc, conn, active>>

\* `for name in court_names`: the next name, and the modal closed if open;
\* the generator ends when the list is exhausted.
NextCourtSkips(i) == i + 2

NextCourt(i) == i + 1

for_name ==
    /\ pc = "for_name"
    /\ IF NextCourt(k) <= Len(loc)
       THEN /\ k' = NextCourt(k)
            /\ chosen_court_name' = loc[NextCourt(k)]
            /\ modal' = FALSE
            /\ pc' = "choose_name"
       ELSE /\ pc' = "done"
            /\ UNCHANGED <<k, chosen_court_name, modal>>
    /\ UNCHANGED <<caller, mode, chosen_state, idx, retries, options, optI,
                   loc, rows, rowI, name, shown, tmo, yielded, ylog, files,
                   dirs, calls, trace, exc, reqId, formOk, hpc, bcast, sent,
                   wsPc, conn, active>>

\* page.locator(DATE).fill and fill_value(page, DATE, chosen_date)
fill_date ==
    /\ pc = "fill_date"
    /\ Step("fill_date")
    /\ pc' = "fill_captcha"
    /\ UNCHANGED <<caller, mode, chosen_state, chosen_court_name, modal, idx,
                   retries, options, optI, loc, k, rows, rowI, name, shown,
                   tmo, yielded, ylog, files, dirs, calls, exc, reqId, formOk,
                   hpc, bcast, sent, wsPc, conn, active>>

\* fill_value(page, CAPTCHA_CODE, solve_captcha(page))
fill_captcha ==
    /\ pc = "fill_captcha"
    /\ Step("fill_captcha")
    /\ pc' = "submit"
    /\ UNCHANGED <<caller, mode, chosen_state, chosen_court_name, modal, idx,
                   retries, options, optI, loc, k, rows, rowI, name, shown,
                   tmo, yielded, ylog, files, dirs, calls, exc, reqId, formOk,
                   hpc, bcast, sent, wsPc, conn, active>>

\* The case-type button is clicked; the portal shows the error modal when
\* the OCR text was wrong.
submit ==
    /\ pc = "submit"
    /\ Step("submit")
    /\ modal' \in BOOLEAN
    /\ pc' = "pass_captcha"
    /\ UNCHANGED <<caller, mode, chosen_state, chosen_court_name, idx,
                   retries, options, optI, loc, k, rows, rowI, name, shown,
                   tmo, yielded, ylog, files, dirs, calls, exc, reqId, formOk,
                   hpc, bcast, sent, wsPc, conn, active>>

\* pass_captcha: idx = 0
pass_captcha_enter ==
    /\ pc = "pass_captcha"
    /\ idx' = 0
    /\ retries' = 0
    /\ pc' = "pc_while"
    /\ UNCHANGED <<caller, mode, chosen_state, chosen_court_name, modal,
                   options, optI, loc, k, rows, rowI, name, shown, tmo,
                   yielded, ylog, files, dirs, calls, trace, exc, reqId,
                   formOk, hpc, bcast, sent, wsPc, conn, active>>

\* The while condition: is_visible() and idx < MAX_ITERATIONS
LoopCondOffByOne(m, i) == m /\ i <= MAX_ITERATIONS

LoopCond(m, i) == m /\ i < MAX_ITERATIONS

\* One pass of the while loop: close.first.click(), the click on REFRESH,
\* fill_value(page, CAPTCHA_CODE, solve_captcha(page)), the click on the
\* case-type button, after which the modal is visible again or not, idx += 1.
pass_captcha_retry ==
    /\ pc = "pc_while"
    /\ LoopCond(modal, idx)
    /\ modal' \in BOOLEAN
    /\ idx' = idx + 1
    /\ retries' = retries + 1
    /\ UNCHANGED <<caller, mode, chosen_state, chosen_court_name, pc, options,
                   optI, loc, k, rows, rowI, name, shown, tmo, yielded, ylog,
                   files, dirs, calls, trace, exc, reqId, formOk, hpc, bcast,
                   sent, wsPc, conn, active>>

\* After the loop: `if idx == MAX_ITERATIONS: raise ValueError(...)`.  The
\* exception leaves begin_scrape / begin_scrape_all, which catch nothing.
pass_captcha_raise ==
    /\ pc = "pc_while"
    /\ ~LoopCond(modal, idx)
    /\ idx = MAX_ITERATIONS
    /\ exc' = "ValueError"
    /\ pc' = "raised"
    /\ UNCHANGED <<caller, mode, chosen_state, chosen_court_name, modal, idx,
                   retries, options, optI, loc, k, rows, rowI, name, shown,
                   tmo, yielded, ylog, files, dirs, calls, trace, reqId,
                   formOk, hpc, bcast, sent, wsPc, conn, active>>

\* After the loop: pass_captcha returns and get_pdfs is called.
pass_captcha_return ==
    /\ pc = "pc_while"
    /\ ~LoopCond(modal, idx)
    /\ idx # MAX_ITERATIONS
    /\ Step("pass_captcha")
    /\ pc' = "get_pdfs"
    /\ UNCHANGED <<caller, mode, chosen_state, chosen_court_name, modal, idx,
                   retries, options, optI, loc, k, rows, rowI, name, shown,
                   tmo, yielded, ylog, files, dirs, calls, exc, reqId, formOk,
                   hpc, bcast, sent, wsPc, conn, active>>

\* get_pdfs: parent = Path(self.PATH).joinpath(state, dist, court, court_name)
parent == joinpath(Path(PATH), <<chosen_state, DistName, CourtName, chosen_court_name>>)

\* get_pdfs: records = await view.all(); os.makedirs(parent) if records.
MakesDir(n) == n > 0

get_pdfs_start ==
    /\ pc = "get_pdfs"
    /\ Step("get_pdfs")
    /\ \E n \in 0 .. MaxRows :
          /\ rows' = n
          /\ dirs' = IF MakesDir(n)
                     THEN dirs \cup {[court |-> k, dir |-> absolute(parent)]}
                     ELSE dirs
          /\ rowI' = IF n > 0 THEN 1 ELSE 0
          /\ pc' = IF n > 0 THEN "row_click" ELSE "pdfs_end"
    /\ tmo' = 0
    /\ UNCHANGED <<caller, mode, chosen_state, chosen_court_name, modal, idx,
                   retries, options, optI, loc, k, name, shown, yielded, ylog,
                   files, calls, exc, reqId, formOk, hpc, bcast, sent, wsPc,
                   conn, active>>

RowPcs == {"row_click", "row_read", "row_pdf", "row_back", "row_wait"}

\* record.click()
row_click ==
    /\ pc = "row_click"
    /\ pc' = "row_read"
    /\ UNCHANGED <<caller, mode, chosen_state, chosen_court_name, modal, idx,
                   retries, options, optI, loc, k, rows, rowI, name, shown,
                   tmo, yielded, ylog, files, dirs, calls, trace, exc, reqId,
                   formOk, hpc, bcast, sent, wsPc, conn, active>>

\* name = page.locator(CNR_NUMBER).first.inner_text()
row_read ==
    /\ pc = "row_read"
    /\ \E l \in Labels :
          /\ shown' = l
          /\ name' = l
    /\ pc' = "row_pdf"
    /\ UNCHANGED <<caller, mode, chosen_state, chosen_court_name, modal, idx,
                   retries, options, optI, loc, k, rows, rowI, tmo, yielded,
                   ylog, files, dirs, calls, trace, exc, reqId, formOk, hpc,
                   bcast, sent, wsPc, conn, active>>

\* page.pdf(path=parent.joinpath(f"{name}.pdf").absolute())
row_pdf ==
    /\ pc = "row_pdf"
    /\ files' = files \cup
          {[court |-> k, row |-> rowI,
            file |-> absolute(joinpath(parent, <<PdfName(name)>>))]}
    /\ pc' = "row_back"
    /\ UNCHANGED <<caller, mode, chosen_state, chosen_court_name, modal, idx,
                   retries, options, optI, loc, k, rows, rowI, name, shown,
                   tmo, yielded, ylog, dirs, calls, trace, exc, reqId, formOk,
                   hpc, bcast, sent, wsPc, conn, active>>

\* back.click()
row_back ==
    /\ pc = "row_back"
    /\ pc' = "row_wait"
    /\ UNCHANGED <<caller, mode, chosen_state, chosen_court_name, modal, idx,
                   retries, options, optI, loc, k, rows, rowI, name, shown,
                   tmo, yielded, ylog, files, dirs, calls, trace, exc, reqId,
                   formOk, hpc, bcast, sent, wsPc, conn, active>>

\* page.wait_for_load_state("networkidle")
row_wait ==
    /\ pc = "row_wait"
    /\ pc' = "row_yield"
    /\ UNCHANGED <<caller, mode, chosen_state, chosen_court_name, modal, idx,
                   retries, options, optI, loc, k, rows, rowI, name, shown,
                   tmo, yielded, ylog, files, dirs, calls, trace, exc, reqId,
                   formOk, hpc, bcast, sent, wsPc, conn, active>>

\* yield Dict(name, str(parent.joinpath(f"{name}.pdf"))): the generator is
\* suspended until its consumer asks for the next item.
row_yield ==
    /\ pc = "row_yield"
    /\ yielded' = Append(yielded,
          Dict(name, PathStr(joinpath(parent, <<PdfName(name)>>))))
    /\ ylog' = Append(ylog, [court |-> k, row |-> rowI, label |-> shown])
    /\ pc' = "yielded"
    /\ UNCHANGED <<caller, mode, chosen_state, chosen_court_name, modal, idx,
                   retries, options, optI, loc, k, rows, rowI, name, shown,
                   tmo, files, dirs, calls, trace, exc, reqId, formOk, hpc,
                   bcast, sent, wsPc, conn, active>>

\* The consumer asks for the next item: the for loop over records goes on.
Resume ==
    /\ pc = "yielded"
    /\ IF rowI < rows
       THEN /\ rowI' = rowI + 1
            /\ pc' = "row_click"
       ELSE /\ rowI' = rowI
            /\ pc' = "pdfs_end"

\* `except TimeoutError: print(...)` around the loop over records: any of the
\* five awaited page calls of a record may time out.
TimeoutPropagates ==
    /\ pc \in RowPcs
    /\ tmo' = rowI
    /\ exc' = "TimeoutError"
    /\ pc' = "raised"
    /\ UNCHANGED <<caller, mode, chosen_state, chosen_court_name, modal, idx,
                   retries, options, optI, loc, k, rows, rowI, name, shown,
                   yielded, ylog, files, dirs, calls, trace, reqId, formOk,
                   hpc, bcast, sent, wsPc, conn, active>>

get_pdfs_timeout ==
    /\ pc \in RowPcs
    /\ tmo' = rowI
    /\ pc' = "pdfs_end"
    /\ UNCHANGED <<caller, mode, chosen_state, chosen_court_name, modal, idx,
                   retries, options, optI, loc, k, rows, rowI, name, shown,
                   yielded, ylog, files, dirs, calls, trace, exc, reqId,
                   formOk, hpc, bcast, sent, wsPc, conn, active>>

\* get_pdfs ends: begin_scrape ends too, begin_scrape_all goes on with the
\* next court name.
get_pdfs_return ==
    /\ pc = "pdfs_end"
    /\ calls' = Append(calls, [court |-> k, rows |-> rows, tmo |-> tmo])
    /\ pc' = IF mode = "single" THEN "done" ELSE "for_name"
    /\ UNCHANGED <<caller, mode, chosen_state, chosen_court_name, modal, idx,
                   retries, options, optI, loc, k, rows, rowI, name, shown,
                   tmo, yielded, ylog, files, dirs, trace, exc, reqId, formOk,
                   hpc, bcast, sent, wsPc, conn, active>>

\* cli.py: `async for cnr, path in task: print(...)`
cli_print ==
    /\ caller = "cli"
    /\ Resume
    /\ UNCHANGED <<caller, mode, chosen_state, chosen_court_name, modal, idx,
                   retries, options, optI, loc, k, rows, name, shown, tmo,
                   yielded, ylog, files, dirs, calls, trace, exc, reqId,
                   formOk, hpc, bcast, sent, wsPc, conn, active>>

\* ------------------------------------------------------------- server
\* WebSocket connections: the cookie "id" of each, absent for s3.  s1 and s2
\* are two sockets of one browser (two tabs share the cookie).
Sockets == {"s1", "s2", "s3"}
HasAuth(s) == s \in {"s1", "s2"}
IdOf(s) == "a"
Ids == {"a", "b"}

NoConnections == [i \in {} |-> "s1"]

PdfMsg(d) == [cnr |-> d.cnr, path |-> d.path]
ErrorMsg == [error |-> "Request Failed. Please try again"]

\* ConnectionManager.broadcast: effect on the registered socket.
SendAll(id, message) ==
    [s \in Sockets |-> IF \E i \in DOMAIN active : active[i] = s
                       THEN Append(sent[s], message) ELSE sent[s]]

Send(id, message) ==
    IF id \in DOMAIN active
    THEN [sent EXCEPT ![active[id]] = Append(@, message)]
    ELSE sent

\* One call manager.broadcast(id, message).
broadcast(id, message) ==
    /\ bcast' = Append(bcast, [idx |-> id, msg |-> message])
    /\ sent' = Send(id, message)

\* get_court_pdf / get_all_court_pdf up to the `async for`: the assertions
\* on the form either pass, and the scrape starts, or raise AssertionError.
\* (idx = req.cookies[AUTH] is read first, so the request has the cookie.)
h_request ==
    /\ hpc = "start"
    /\ IF formOk
       THEN /\ pc' = "start"
            /\ hpc' = "iter"
       ELSE /\ pc' = pc
            /\ hpc' = "except"
    /\ UNCHANGED <<caller, mode, chosen_state, chosen_court_name, modal, idx,
                   retries, options, optI, loc, k, rows, rowI, name, shown,
                   tmo, yielded, ylog, files, dirs, calls, trace, exc, reqId,
                   formOk, bcast, sent, wsPc, conn, active>>

\* `async for cnr, path in ...: await manager.broadcast(idx, {cnr, path})`:
\* the body for the Dict just yielded, then the generator is resumed.
h_relay ==
    /\ hpc = "iter"
    /\ caller \in {"court", "court_all"}
    /\ Resume
    /\ broadcast(reqId, PdfMsg(yielded[Len(yielded)]))
    /\ UNCHANGED <<caller, mode, chosen_state, chosen_court_name, modal, idx,
                   retries, options, optI, loc, k, rows, name, shown, tmo,
                   yielded, ylog, files, dirs, calls, trace, exc, reqId,
                   formOk, hpc, wsPc, conn, active>>

\* The generator is exhausted: the endpoint returns.
h_return ==
    /\ hpc = "iter"
    /\ pc = "done"
    /\ hpc' = "done"
    /\ UNCHANGED <<caller, mode, chosen_state, chosen_court_name, pc, modal,
                   idx, retries, options, optI, loc, k, rows, rowI, name,
                   shown, tmo, yielded, ylog, files, dirs, calls, trace, exc,
                   reqId, formOk, bcast, sent, wsPc, conn, active>>

\* The scraper raised: `except (AssertionError, RuntimeError)` takes the
\* exception or it leaves the endpoint.
Caught == {"AssertionError", "RuntimeError"}

h_raised ==
    /\ hpc = "iter"
    /\ pc = "raised"
    /\ hpc' = IF exc \in Caught THEN "except" ELSE "crashed"
    /\ UNCHANGED <<caller, mode, chosen_state, chosen_court_name, pc, modal,
                   idx, retries, options, optI, loc, k, rows, rowI, name,
                   shown, tmo, yielded, ylog, files, dirs, calls, trace, exc,
                   reqId, formOk, bcast, sent, wsPc, conn, active>>

\* The except clause: logger.error and the error broadcast.
h_except ==
    /\ hpc = "except"
    /\ broadcast(reqId, ErrorMsg)
    /\ hpc' = "done"
    /\ UNCHANGED <<caller, mode, chosen_state, chosen_court_name, pc, modal,
                   idx, retries, options, optI, loc, k, rows, rowI, name,
                   shown, tmo, yielded, ylog, files, dirs, calls, trace, exc,
                   reqId, formOk, wsPc, conn, active>>

\* websocket_predict calls ConnectionManager.connect and then sleeps in its
\* loop.  connect: without the cookie the AssertionError is caught and
\* logged; with it the socket is accepted and
\* self.active_connections.update({idx: websocket}) registers it.
connect(s) ==
    /\ wsPc[s] = "start"
    /\ IF HasAuth(s)
       THEN /\ conn' = [conn EXCEPT ![s] = "accepted"]
            /\ active' = [i \in DOMAIN active \cup {IdOf(s)} |->
                             IF i = IdOf(s) THEN s ELSE active[i]]
       ELSE /\ conn' = conn
            /\ active' = active
    /\ wsPc' = [wsPc EXCEPT ![s] = "loop"]
    /\ UNCHANGED <<caller, mode, chosen_state, chosen_court_name, pc, modal,
                   idx, retries, options, optI, loc, k, rows, rowI, name,
                   shown, tmo, yielded, ylog, files, dirs, calls, trace, exc,
                   reqId, formOk, hpc, bcast, sent>>

\* websocket_predict leaves its sleep loop with WebSocketDisconnect or
\* RuntimeError and calls ConnectionManager.disconnect: the assertion (its
\* AssertionError is caught and logged), then active_connections.pop(idx),
\* whose KeyError nothing catches, then websocket.close().
disconnect(s) ==
    /\ wsPc[s] = "loop"
    /\ IF ~HasAuth(s)
       THEN /\ wsPc' = [wsPc EXCEPT ![s] = "done"]
            /\ active' = active
            /\ conn' = conn
       ELSE IF IdOf(s) \notin DOMAIN active
            THEN /\ wsPc' = [wsPc EXCEPT ![s] = "KeyError"]
                 /\ active' = active
                 /\ conn' = conn
            ELSE /\ active' = [i \in DOMAIN active \ {IdOf(s)} |-> active[i]]
                 /\ conn' = [conn EXCEPT ![s] = "closed"]
                 /\ wsPc' = [wsPc EXCEPT ![s] = "done"]
    /\ UNCHANGED <<caller, mode, chosen_state, chosen_court_name, pc, modal,
                   idx, retries, options, optI, loc, k, rows, rowI, name,
                   shown, tmo, yielded, ylog, files, dirs, calls, trace, exc,
                   reqId, formOk, hpc, bcast, sent>>

\* --------------------------------------------------------------- runs
ScraperStart ==
    /\ modal \in BOOLEAN
    /\ idx = 0
    /\ retries = 0
    /\ optI = 1
    /\ loc = <<>>
    /\ k = IF mode = "single" THEN 1 ELSE 0
    /\ rows = 0
    /\ rowI = 0
    /\ name = <<>>
    /\ shown = <<>>
    /\ tmo = 0
    /\ yielded = <<>>
    /\ ylog = <<>>
    /\ files = {}
    /\ dirs = {}
    /\ calls = <<>>
    /\ trace = <<>>
    /\ exc = "none"

ServerOff ==
    /\ reqId = "a"
    /\ formOk = TRUE
    /\ hpc = "off"
    /\ bcast = <<>>
    /\ sent = [s \in Sockets |-> <<>>]
    /\ wsPc = [s \in Sockets |-> "off"]
    /\ conn = [s \in Sockets |-> "new"]
    /\ active = NoConnections

\* cli.py: --all or --name, with --state, --district, --complex, --path.
Init ==
    /\ caller = "cli"
    /\ mode \in {"single", "all"}
    /\ chosen_state \in StateNames
    /\ chosen_court_name \in (IF mode = "single" THEN CourtNameArgs ELSE { <<>> })
    /\ options \in (IF mode = "all" THEN CourtPages ELSE { <<>> })
    /\ pc = "start"
    /\ ScraperStart
    /\ ServerOff

ScraperNext ==
    \/ begin
    \/ choose_state
    \/ choose_district
    \/ choose_complex
    \/ choose_name
    \/ get_all_options_step
    \/ get_all_options_return
    \/ for_name
    \/ fill_date
    \/ fill_captcha
    \/ submit
    \/ pass_captcha_enter
    \/ pass_captcha_retry
    \/ pass_captcha_raise
    \/ pass_captcha_return
    \/ get_pdfs_start
    \/ row_click
    \/ row_read
    \/ row_pdf
    \/ row_back
    \/ row_wait
    \/ row_yield
    \/ get_pdfs_timeout
    \/ get_pdfs_return

Next ==
    \/ ScraperNext
    \/ cli_print

Spec == Init /\ [][Next]_vars

\* cli.py with --name: begin_scrape alone.  The event loop runs the only
\* coroutine of the CLI whenever it can run.
InitSingle ==
    /\ caller = "cli"
    /\ mode = "single"
    /\ chosen_state \in StateNames
    /\ chosen_court_name \in CourtNameArgs
    /\ options = <<>>
    /\ pc = "start"
    /\ ScraperStart
    /\ ServerOff

NextSingle ==
    \/ begin
    \/ choose_state
    \/ choose_district
    \/ choose_complex
    \/ choose_name
    \/ fill_date
    \/ fill_captcha
    \/ submit
    \/ pass_captcha_enter
    \/ pass_captcha_retry
    \/ pass_captcha_raise
    \/ pass_captcha_return
    \/ get_pdfs_start
    \/ row_click
    \/ row_read
    \/ row_pdf
    \/ row_back
    \/ row_wait
    \/ row_yield
    \/ get_pdfs_timeout
    \/ get_pdfs_return
    \/ cli_print

FairSingle == InitSingle /\ [][NextSingle]_vars /\ WF_vars(NextSingle)

\* get_all_options alone, on every short list of <option> elements.
InitOptions ==
    /\ caller = "cli"
    /\ mode = "all"
    /\ chosen_state \in StateNames
    /\ chosen_court_name = <<>>
    /\ options \in SeqsUpTo(AllOptions, MaxOptions)
    /\ pc = "get_all_options"
    /\ ScraperStart
    /\ ServerOff

NextOptions ==
    \/ get_all_options_step
    \/ get_all_options_return

SpecOptions == InitOptions /\ [][NextOptions]_vars

\* The server: one request to /api/court or /api/court/all from a client
\* with cookie id reqId, while WebSocket handlers connect and disconnect.
ServerPage == <<Placeholder, Option(<<"1">>, <<"A">>, None)>>

InitServer ==
    /\ caller \in {"court", "court_all"}
    /\ mode = IF caller = "court" THEN "single" ELSE "all"
    /\ chosen_state = <<"M", "H">>
    /\ chosen_court_name = IF mode = "single" THEN <<"A">> ELSE <<>>
    /\ options = IF mode = "all" THEN ServerPage ELSE <<>>
    /\ pc = "idle"
    /\ ScraperStart
    /\ reqId \in Ids
    /\ formOk \in BOOLEAN
    /\ hpc = "start"
    /\ bcast = <<>>
    /\ sent = [s \in Sockets |-> <<>>]
    /\ wsPc = [s \in Sockets |-> "start"]
    /\ conn = [s \in Sockets |-> "new"]
    /\ active = NoConnections

NextServer ==
    \/ ScraperNext
    \/ h_request
    \/ h_relay
    \/ h_return
    \/ h_raised
    \/ h_except
    \/ \E s \in Sockets : connect(s)
    \/ \E s \in Sockets : disconnect(s)

SpecServer == InitServer /\ [][NextServer]_vars

\* ------------------------------------------------------------- claims
InPassCaptcha == pc \in {"pass_captcha", "pc_while"}

\* C1: one call of pass_captcha performs at most MAX_ITERATIONS retry
\* iterations, whatever the modal does, and then ends: it returns (get_pdfs
\* is next) or raises ValueError.
C1_BoundedRetries ==
    /\ [](retries <= MAX_ITERATIONS /\ (InPassCaptcha => retries = idx))
    /\ (InPassCaptcha ~> (pc = "get_pdfs" \/ (pc = "raised" /\ exc = "ValueError")))

C1_Witness == pc = "raised" /\ retries = MAX_ITERATIONS /\ exc = "ValueError"

\* The fixed order of begin_scrape's form steps.
Order ==
    <<"choose_state", "choose_district", "choose_complex", "choose_name", "fill_date",
      "fill_captcha", "submit", "pass_captcha", "get_pdfs">>

Harvesting == pc \in RowPcs \cup {"row_yield", "yielded", "pdfs_end"}

\* C2: in begin_scrape the steps performed so far are always an initial part
\* of the fixed order state, district, court complex, court name, date,
\* CAPTCHA fill, submit, pass_captcha, get_pdfs; nothing is harvested,
\* exported or yielded before pass_captcha has returned.
C2_FixedOrder ==
    mode = "single" =>
        /\ Len(trace) <= Len(Order)
        /\ \A i \in 1 .. Len(trace) : trace[i] = <<Order[i], 1>>
        /\ (Harvesting \/ yielded # <<>> \/ files # {} \/ dirs # {} \/ calls # <<>>)
              => (Len(trace) = Len(Order) /\ exc = "none")

C2_Witness == mode = "single" /\ pc = "done" /\ Len(yielded) = 2

\* The steps begin_scrape_all performs for each court name.
CourtOrder ==
    <<"choose_name", "fill_date", "fill_captcha", "submit", "pass_captcha", "get_pdfs">>

\* C4: begin_scrape_all takes the court names one at a time, in list order
\* and each once: the steps after the three menus are the per-court steps of
\* position 1, then those of position 2, and so on, each block complete
\* (harvest finished) before the next name is selected, the name selected at
\* position k is court_names[k], and the yielded Dicts are grouped by court,
\* in court order.
C4_OneCourtAtATime ==
    mode = "all" =>
        /\ \A i \in 1 .. Len(trace) :
              IF i <= 3
              THEN trace[i] = <<Order[i], 0>>
              ELSE trace[i] = <<CourtOrder[((i - 4) % 6) + 1], ((i - 4) \div 6) + 1>>
        /\ k <= Len(loc) \/ pc = "get_all_options"
        /\ k >= 1 => chosen_court_name = loc[k]
        /\ \A i \in 1 .. Len(calls) : calls[i].court = i
        /\ k >= 1 => Len(calls) \in {k - 1, k}
        /\ pc = "choose_name" => Len(calls) = k - 1
        /\ \A i \in 1 .. Len(ylog) : ylog[i].court \in 1 .. k
        /\ \A i, j \in 1 .. Len(ylog) : i < j => ylog[i].court <= ylog[j].court

C4_Witness ==
    /\ mode = "all"
    /\ k = 2
    /\ Len(ylog) >= 2
    /\ ylog[1].court = 1
    /\ ylog[Len(ylog)].court = 2

\* The court name scraped at position c.
CourtNameAt(c) == IF mode = "single" THEN chosen_court_name ELSE loc[c]

\* <PATH>/<state>/<district>/<court>/<court_name>/<cnr>.pdf
ClaimedPath(c, cnr) ==
    PATH \o <<"/">> \o chosen_state \o <<"/">> \o DistName \o <<"/">> \o CourtName
         \o <<"/">> \o CourtNameAt(c) \o <<"/">> \o cnr \o <<".", "p", "d", "f">>

YieldRows(c) == { ylog[i].row : i \in { j \in 1 .. Len(ylog) : ylog[j].court = c } }

\* C3: a get_pdfs call without TimeoutError yields one Dict per result row,
\* in row order; each Dict's cnr is the label read for its row and its path
\* is <PATH>/<state>/<district>/<court>/<court_name>/<cnr>.pdf, the file the
\* page was exported to.
C3_OneDictPerRow ==
    /\ \A c \in 1 .. Len(calls) : calls[c].tmo = 0 => YieldRows(c) = 1 .. calls[c].rows
    /\ \A i, j \in 1 .. Len(ylog) :
          (i < j /\ ylog[i].court = ylog[j].court) => ylog[i].row < ylog[j].row
    /\ Len(ylog) = Len(yielded)
    /\ \A i \in 1 .. Len(yielded) :
          /\ yielded[i].cnr = ylog[i].label
          /\ yielded[i].path = ClaimedPath(ylog[i].court, yielded[i].cnr)
          /\ [court |-> ylog[i].court, row |-> ylog[i].row,
              file |-> absolute(Path(yielded[i].path))] \in files

\* C6: pass_captcha raises ValueError only when the modal is still visible
\* after the last allowed retry; when a retry, the MAX_ITERATIONS-th
\* included, makes the modal disappear, pass_captcha returns.
C6_RaisesOnlyUnsolved == exc = "ValueError" => modal

\* C7: a request whose scrape failed (the form was refused, or the scraper
\* raised) never ends without the error message having been broadcast to the
\* requesting client's id.
C7_FailureReported ==
    (hpc \in {"done", "crashed"} /\ (exc # "none" \/ ~formOk))
        => \E i \in 1 .. Len(bcast) : bcast[i] = [idx |-> reqId, msg |-> ErrorMsg]

FilesOf(c) == { f \in files : f.court = c }
DirsOf(c) == { d \in dirs : d.court = c }

\* C8: TimeoutError at record i of get_pdfs never leaves get_pdfs: the call
\* ends normally having yielded exactly the records before i; a call that
\* found no record yields nothing, writes nothing and creates no directory.
C8_TimeoutEndsHarvest ==
    /\ exc # "TimeoutError"
    /\ tmo > 0 => pc \notin RowPcs \cup {"row_yield", "yielded"}
    /\ (tmo > 0 /\ pc = "pdfs_end") => YieldRows(k) = 1 .. (tmo - 1)
    /\ \A c \in 1 .. Len(calls) :
          /\ calls[c].tmo > 0 => YieldRows(c) = 1 .. (calls[c].tmo - 1)
          /\ calls[c].rows = 0 => (YieldRows(c) = {} /\ FilesOf(c) = {} /\ DirsOf(c) = {})
    /\ (Harvesting /\ rows = 0) => (YieldRows(k) = {} /\ FilesOf(k) = {} /\ DirsOf(k) = {})

C8_Witness ==
    /\ Len(calls) >= 1
    /\ calls[1].tmo = 2
    /\ YieldRows(1) = {1}
    /\ pc = "done"

\* The inner texts of the options with a non-empty value and no disabled
\* attribute, in document order.
RECURSIVE EnabledTexts(_)
EnabledTexts(opts) ==
    IF opts = <<>> THEN <<>>
    ELSE (IF Head(opts).value \notin {None, <<>>} /\ Head(opts).disabled = None
          THEN <<Head(opts).text>> ELSE <<>>) \o EnabledTexts(Tail(opts))

\* C9: get_all_options returns exactly the texts of the options with a
\* non-empty value and no disabled attribute, in document order.
C9_EnabledOptions ==
    /\ pc = "get_all_options" => loc = EnabledTexts(SubSeq(options, 1, optI - 1))
    /\ pc = "for_name" => loc = EnabledTexts(options)

C9_Witness ==
    /\ pc = "for_name"
    /\ Len(options) = 2
    /\ options[1].disabled = <<>>
    /\ options[1].value = <<"1">>
    /\ loc = <<options[2].text>>

\* C5: every broadcast is for the requesting client's id; the {cnr, path}
\* messages broadcast are the yielded Dicts, one each, in order; a message
\* goes only to the socket registered under that id when it is sent.
C5_Relay ==
    /\ [](/\ \A i \in 1 .. Len(bcast) : bcast[i].idx = reqId
          /\ LET pdfs == SelectSeq(bcast, LAMBDA b : "cnr" \in DOMAIN b.msg)
             IN /\ Len(pdfs) = Len(yielded) - (IF pc = "yielded" THEN 1 ELSE 0)
                /\ \A i \in 1 .. Len(pdfs) : pdfs[i].msg = PdfMsg(yielded[i])
          /\ \A s \in Sockets : sent[s] # <<>> => (HasAuth(s) /\ IdOf(s) = reqId))
    /\ [][\A s \in Sockets :
            sent'[s] # sent[s] => (reqId \in DOMAIN active /\ active[reqId] = s)]_vars

C5_Witness ==
    /\ Len(bcast) = 2
    /\ Len(sent["s1"]) = 1
    /\ Len(sent["s2"]) = 1

\* C10: active_connections maps each id to an accepted, open socket, every
\* accepted open socket is registered under its id, and no disconnect fails
\* with an uncaught error.
C10_Registry ==
    /\ \A i \in DOMAIN active : conn[active[i]] = "accepted"
    /\ \A s \in Sockets :
          conn[s] = "accepted" => (IdOf(s) \in DOMAIN active /\ active[IdOf(s)] = s)
    /\ \A s \in Sockets : wsPc[s] # "KeyError"
====
